---- MODULE Spec2Model ----
(***************************************************************************)
(* Model of hex_star (src/game.py): a grid of hexagonal cells in offset    *)
(* layout, a pointer-to-cell resolver, and a player whose cached path is   *)
(* recomputed by an A* search whenever its position, its destination or a  *)
(* cell's blocked flag changes.                                            *)
(*                                                                         *)
(* A Hexagon is identified by its position (col, row), as in the source    *)
(* (Hexagon.position = (j, i), the field the dataclass hashes and compares *)
(* on).  Python's None is the empty tuple.  Python sequences are 0-based,  *)
(* TLA+ sequences 1-based: key[0] of the source is key[1] here.            *)
(*                                                                         *)
(* hex_width = 32*sqrt(3) and half_width = 16*sqrt(3) are irrational, so a *)
(* horizontal length is kept exactly as a pair (a, b) standing for         *)
(* a + b*sqrt(3), and comparisons with sqrt(3) are decided by squaring.    *)
(***************************************************************************)
EXTENDS Integers, Sequences, FiniteSets, TLC

VARIABLES
    height,        \* HexGrid.height
    width,         \* HexGrid.width
    hexagons,      \* HexGrid.hexagons: rows of Hexagon positions
    neighbors,     \* Hexagon.neighbors of every hexagon
    blocked,       \* Hexagon.blocked of every hexagon
    highlighted,   \* Hexagon.highlighted of every hexagon
    selected_hex,  \* HexGrid.selected_hex
    position,      \* Player.position
    center,        \* Player.center
    destination,   \* Player._destination
    path,          \* Player.path
    search,        \* the locals of a running find_path call
    event          \* the event the loop handled last

vars == <<height, width, hexagons, neighbors, blocked, highlighted,
          selected_hex, position, center, destination, path, search, event>>

(***************************************************************************)
(* Bounds of the model.                                                    *)
(***************************************************************************)
\* grids of the event-loop specification: height, width and height*width
MaxHeight == 3
MaxWidth == 3
MaxArea == 6
\* grids (height, width and height*width) and blocked cells of the search
\* specification
SearchMaxHeight == 6
SearchMaxWidth == 3
SearchMaxArea == 18
SearchMaxBlocked == 1
\* arguments of the construction specification: height and width range
\* from -GridMaxNegative to GridMaxHeight and GridMaxWidth
GridMaxNegative == 1
GridMaxHeight == 6
GridMaxWidth == 6
\* grids of the pointer specification
PointerMaxHeight == 3
PointerMaxWidth == 4
\* grids (height, width and height*width) and blocked cells of the search
\* specification for small grids with several blocked cells
DenseMaxHeight == 4
DenseMaxWidth == 4
DenseMaxArea == 12
DenseMaxBlocked == 2

(***************************************************************************)
(* Program constants.                                                      *)
(***************************************************************************)
GRID_OFFSET == 5
HEX_HEIGHT == 64
quart_height == HEX_HEIGHT \div 4
three_quart_height == 3 * quart_height
\* hex_width = HexWidthRoot3 * sqrt(3), half_width = HalfWidthRoot3 * sqrt(3)
HexWidthRoot3 == HEX_HEIGHT \div 2
HalfWidthRoot3 == HexWidthRoot3 \div 2
\* POINTER_OFFSET = 0.09 = PointerOffsetNum / PointerOffsetDen
PointerOffsetNum == 9
PointerOffsetDen == 100
\* math.inf: larger than every score a search can produce
Inf == 1000000

None == <<>>

Slots == {"left", "right", "up_left", "up_right", "down_left", "down_right"}

Abs(x) == IF x < 0 THEN -x ELSE x

(***************************************************************************)
(* HexGrid                                                                 *)
(***************************************************************************)
\* HexGrid.__post_init__, the list comprehension: row i holds the hexagons
\* (j, i) for j in range(width - i % 2)
BuildHexagons(h, w) ==
    [r \in 1..h |-> [c \in 1..(w - ((r - 1) % 2)) |-> <<c - 1, r - 1>>]]

\* the lookup, were the two tests for a negative index left out: a Python
\* list counts a negative index from its end
GetItemNegativeFromEnd(hx, key) ==
    LET irow == IF key[1] < 0 THEN key[1] + Len(hx) ELSE key[1]
    IN  IF irow < 0 \/ irow >= Len(hx) THEN None
        ELSE LET icol == IF key[2] < 0 THEN key[2] + Len(hx[irow + 1]) ELSE key[2]
             IN  IF icol < 0 \/ icol >= Len(hx[irow + 1]) THEN None
                 ELSE hx[irow + 1][icol + 1]

\* HexGrid.__getitem__: key = (row, column)
GetItem(hx, key) ==
    IF key[1] < 0 \/ key[1] >= Len(hx) THEN None
    ELSE IF key[2] < 0 \/ key[2] >= Len(hx[key[1] + 1]) THEN None
    ELSE hx[key[1] + 1][key[2] + 1]

\* every hexagon of the grid (for node in row for row in hexagons)
CellsOf(hx) == UNION {{hx[r][c] : c \in DOMAIN hx[r]} : r \in DOMAIN hx}

\* the wiring loop, were the row parity left out of left and right
WireNeighborsNoParity(hx, irow, icol) ==
    LET left    == icol - 1
        right   == icol
    IN  [up_left    |-> GetItem(hx, <<irow - 1, left>>),
         up_right   |-> GetItem(hx, <<irow - 1, right>>),
         down_left  |-> GetItem(hx, <<irow + 1, left>>),
         down_right |-> GetItem(hx, <<irow + 1, right>>),
         left       |-> GetItem(hx, <<irow, icol - 1>>),
         right      |-> GetItem(hx, <<irow, icol + 1>>)]

\* HexGrid.__post_init__, the wiring loop, for the hexagon at (irow, icol)
WireNeighbors(hx, irow, icol) ==
    LET odd_row == irow % 2
        left    == icol + odd_row - 1
        right   == icol + odd_row
    IN  [up_left    |-> GetItem(hx, <<irow - 1, left>>),
         up_right   |-> GetItem(hx, <<irow - 1, right>>),
         down_left  |-> GetItem(hx, <<irow + 1, left>>),
         down_right |-> GetItem(hx, <<irow + 1, right>>),
         left       |-> GetItem(hx, <<irow, icol - 1>>),
         right      |-> GetItem(hx, <<irow, icol + 1>>)]

\* the neighborhoods of all hexagons once the wiring loop has run
BuildNeighbors(hx) == [hex \in CellsOf(hx) |-> WireNeighbors(hx, hex[2], hex[1])]

\* HexNeighborhood.__iter__: the present neighbors, in the order of the list
NeighborList(nb) ==
    LET IsPresent(n) == n # None
    IN  SelectSeq(<<nb.up_left, nb.up_right, nb.right,
                    nb.down_right, nb.down_left, nb.left>>, IsPresent)

(***************************************************************************)
(* Hexagon geometry                                                        *)
(***************************************************************************)
\* Hexagon.__post_init__: center = (vertices[0][0], (vertices[1][1] +
\* vertices[2][1]) / 2); x is x_int + x_root3 * sqrt(3)
HexCenter(hex) ==
    [x_int   |-> GRID_OFFSET,
     x_root3 |-> HalfWidthRoot3 + hex[1] * HexWidthRoot3 + (hex[2] % 2) * HalfWidthRoot3,
     y       |-> ((quart_height + GRID_OFFSET + hex[2] * three_quart_height)
                  + (three_quart_height + GRID_OFFSET + hex[2] * three_quart_height)) \div 2]

\* hex_vertices: the template hexagon, x = x_root3 * sqrt(3)
hex_vertices ==
    <<[x_root3 |-> HalfWidthRoot3, y |-> 0],
      [x_root3 |-> HexWidthRoot3,  y |-> quart_height],
      [x_root3 |-> HexWidthRoot3,  y |-> three_quart_height],
      [x_root3 |-> HalfWidthRoot3, y |-> HEX_HEIGHT],
      [x_root3 |-> 0,              y |-> three_quart_height],
      [x_root3 |-> 0,              y |-> quart_height]>>

\* Hexagon.__post_init__: the six vertices of the hexagon at position
\* (col, row) = hex
HexVertices(hex) ==
    [i \in 1..6 |->
        [x_int   |-> GRID_OFFSET,
         x_root3 |-> hex_vertices[i].x_root3 + hex[1] * HexWidthRoot3
                     + (hex[2] % 2) * HalfWidthRoot3,
         y       |-> hex_vertices[i].y + GRID_OFFSET + hex[2] * three_quart_height]]

(***************************************************************************)
(* Player.find_path                                                        *)
(***************************************************************************)
\* find_path.h: Manhattan distance of the positions
h(a, b) == Abs(a[1] - b[1]) + Abs(a[2] - b[2])

\* the locals of find_path while no call is running
IdleSearch == [status |-> "idle"]

\* find_path up to the loop: came_from, q, open_nodes, f_score, g_score
StartSearch(hx, pos, dest) ==
    [status     |-> "running",
     came_from  |-> (pos :> None),
     q_count    |-> 0,
     q          |-> {<<0, 0, pos>>},
     open_nodes |-> {pos},
     f_score    |-> [node \in CellsOf(hx) |-> IF node = pos THEN h(pos, dest) ELSE Inf],
     g_score    |-> [node \in CellsOf(hx) |-> IF node = pos THEN 0 ELSE Inf],
     path       |-> <<>>]

\* the queue, were it to hand out its greatest entry
QueueGetGreatest(q) ==
    CHOOSE e \in q : \A o \in q : e[1] > o[1] \/ (e[1] = o[1] /\ e[2] >= o[2])

\* PriorityQueue.get: the least entry, tuples (priority, q_count, node)
\* compared lexicographically
QueueGet(q) ==
    CHOOSE e \in q : \A o \in q : e[1] < o[1] \/ (e[1] = o[1] /\ e[2] <= o[2])

\* the body of the for loop, were the test score <= g_score[neighbor]
RelaxOnEqual(s, current_node, neighbor, dest) ==
    LET score == s.g_score[current_node] + 1
    IN  IF score <= s.g_score[neighbor]
        THEN LET f == score + h(neighbor, dest)
                 s1 == [s EXCEPT !.g_score[neighbor] = score,
                                 !.f_score[neighbor] = f,
                                 !.came_from = (neighbor :> current_node) @@ s.came_from]
             IN  IF neighbor \notin s.open_nodes
                 THEN [s1 EXCEPT !.open_nodes = s.open_nodes \cup {neighbor},
                                 !.q_count = s.q_count + 1,
                                 !.q = s.q \cup {<<f, s.q_count + 1, neighbor>>}]
                 ELSE s1
        ELSE s

\* the body of "for neighbor in ...", for one unblocked neighbor
Relax(s, current_node, neighbor, dest) ==
    LET score == s.g_score[current_node] + 1
    IN  IF score < s.g_score[neighbor]
        THEN LET f == score + h(neighbor, dest)
                 s1 == [s EXCEPT !.g_score[neighbor] = score,
                                 !.f_score[neighbor] = f,
                                 !.came_from = (neighbor :> current_node) @@ s.came_from]
             IN  IF neighbor \notin s.open_nodes
                 THEN [s1 EXCEPT !.open_nodes = s.open_nodes \cup {neighbor},
                                 !.q_count = s.q_count + 1,
                                 !.q = s.q \cup {<<f, s.q_count + 1, neighbor>>}]
                 ELSE s1
        ELSE s

\* the for loop over the unblocked neighbors, from the i-th on
RECURSIVE RelaxAll(_, _, _, _, _)
RelaxAll(s, current_node, ns, i, dest) ==
    IF i > Len(ns) THEN s
    ELSE RelaxAll(Relax(s, current_node, ns[i], dest), current_node, ns, i + 1, dest)

\* the inner while loop, were it to stop at the hexagon that came from None
RECURSIVE ReconstructStopsEarly(_, _)
ReconstructStopsEarly(came_from, current_node) ==
    IF came_from[current_node] = None THEN <<>>
    ELSE ReconstructStopsEarly(came_from, came_from[current_node]) \o <<current_node>>

\* the inner while loop: follow came_from from the destination to None
RECURSIVE Reconstruct(_, _)
Reconstruct(came_from, current_node) ==
    IF current_node = None THEN <<>>
    ELSE Reconstruct(came_from, came_from[current_node]) \o <<current_node>>

\* one pass of the loop, were the blocked neighbors not left out
SearchIterIgnoresBlocked(s, nbs, blk, dest) ==
    IF s.q = {} THEN [s EXCEPT !.status = "exhausted"]
    ELSE LET e            == QueueGet(s.q)
             current_node == e[3]
             s1 == [s EXCEPT !.q = s.q \ {e},
                             !.open_nodes = s.open_nodes \ {current_node}]
         IN  IF current_node = dest
             THEN [s1 EXCEPT !.path = Reconstruct(s.came_from, current_node),
                             !.status = "found"]
             ELSE RelaxAll(s1, current_node, NeighborList(nbs[current_node]), 1, dest)

\* one pass of "while not q.empty()", or the return after the loop
SearchIter(s, nbs, blk, dest) ==
    IF s.q = {} THEN [s EXCEPT !.status = "exhausted"]
    ELSE LET e            == QueueGet(s.q)
             current_node == e[3]
             s1 == [s EXCEPT !.q = s.q \ {e},
                             !.open_nodes = s.open_nodes \ {current_node}]
             IsOpen(n) == ~blk[n]
         IN  IF current_node = dest
             THEN [s1 EXCEPT !.path = Reconstruct(s.came_from, current_node),
                             !.status = "found"]
             ELSE RelaxAll(s1, current_node,
                           SelectSeq(NeighborList(nbs[current_node]), IsOpen), 1, dest)

\* the while loop run to its end
RECURSIVE RunSearch(_, _, _, _)
RunSearch(s, nbs, blk, dest) ==
    IF s.status # "running" THEN s
    ELSE RunSearch(SearchIter(s, nbs, blk, dest), nbs, blk, dest)

\* find_path, were self.path cleared only when a path is found
FindPathKeepsOldPath(hx, nbs, blk, pos, dest, old_path) ==
    IF dest # None
    THEN LET s == RunSearch(StartSearch(hx, pos, dest), nbs, blk, dest)
         IN  IF s.status = "found" THEN s.path ELSE old_path
    ELSE old_path

\* find_path as a whole: the path it leaves in Player.path
FindPath(hx, nbs, blk, pos, dest, old_path) ==
    IF dest # None
    THEN RunSearch(StartSearch(hx, pos, dest), nbs, blk, dest).path
    ELSE old_path

(***************************************************************************)
(* Pointer resolution (the MOUSEMOTION branch of the event loop)           *)
(***************************************************************************)
RECURSIVE Gcd(_, _)
Gcd(a, b) == IF b = 0 THEN a ELSE Gcd(b, a % b)

\* a < b * sqrt(3), for integers a and b (reduced by their common divisor
\* first, to keep the squares small)
LessRoot3(a, b) ==
    LET g  == Gcd(Abs(a), Abs(b))
        ra == IF g = 0 THEN 0 ELSE a \div g
        rb == IF g = 0 THEN 0 ELSE b \div g
    IN  IF rb > 0 THEN ra <= 0 \/ ra * ra < 3 * rb * rb
        ELSE IF rb = 0 THEN ra < 0
        ELSE ra < 0 /\ ra * ra > 3 * rb * rb

\* b * sqrt(3) < a, for integers a and b
Root3Less(b, a) == ~LessRoot3(a, b) /\ ~(a = 0 /\ b = 0)

\* math.floor(relative_col) with relative_col = (mouse_x - odd_row *
\* half_width) / hex_width and mouse_x = mouse_x_int + mouse_x_root3 *
\* sqrt(3): the k with k <= relative_col < k + 1.  The shift is the part
\* of relative_col that is rational.  First: the floor, were the half
\* width of an odd row not subtracted.
FloorRelativeColNoRowShift(mouse_x_int, mouse_x_root3, odd_row) ==
    LET shift == mouse_x_root3 \div HexWidthRoot3
        lo == (IF mouse_x_int >= 0 THEN mouse_x_int \div (2 * HexWidthRoot3)
                                   ELSE mouse_x_int \div HexWidthRoot3) + shift - 2
        hi == (IF mouse_x_int >= 0 THEN mouse_x_int \div HexWidthRoot3
                                   ELSE mouse_x_int \div (2 * HexWidthRoot3)) + shift + 2
    IN  CHOOSE k \in lo..hi :
            /\ ~LessRoot3(mouse_x_int, k * HexWidthRoot3 - mouse_x_root3)
            /\ LessRoot3(mouse_x_int, (k + 1) * HexWidthRoot3 - mouse_x_root3)

FloorRelativeCol(mouse_x_int, mouse_x_root3, odd_row) ==
    LET shift == (mouse_x_root3 - odd_row * HalfWidthRoot3) \div HexWidthRoot3
        lo == (IF mouse_x_int >= 0 THEN mouse_x_int \div (2 * HexWidthRoot3)
                                   ELSE mouse_x_int \div HexWidthRoot3) + shift - 2
        hi == (IF mouse_x_int >= 0 THEN mouse_x_int \div HexWidthRoot3
                                   ELSE mouse_x_int \div (2 * HexWidthRoot3)) + shift + 2
    IN  CHOOSE k \in lo..hi :
            /\ ~LessRoot3(mouse_x_int,
                          k * HexWidthRoot3 + odd_row * HalfWidthRoot3 - mouse_x_root3)
            /\ LessRoot3(mouse_x_int,
                         (k + 1) * HexWidthRoot3 + odd_row * HalfWidthRoot3 - mouse_x_root3)

\* the key (mouse_row, mouse_col) the MOUSEMOTION branch computes from a
\* point (x_int + x_root3 * sqrt(3), y).  With D = 6 * HexWidthRoot3,
\* col_fract is (P - X * sqrt(3)) / D; row_fract is y_rem /
\* three_quart_height.
ResolvePoint(point) ==
    LET mouse_x_int == point.x_int - GRID_OFFSET
        mouse_y   == point.y - GRID_OFFSET
        mouse_row == mouse_y \div three_quart_height
        y_rem     == mouse_y % three_quart_height
        odd_row   == mouse_row % 2
        mouse_col == FloorRelativeCol(mouse_x_int, point.x_root3, odd_row)
        D == 6 * HexWidthRoot3
        P == 3 * HexWidthRoot3 + 6 * odd_row * HalfWidthRoot3 + D * mouse_col
             - 6 * point.x_root3
        X == 2 * mouse_x_int
        col_fract_neg == LessRoot3(P, X)
        \* 2 * row_fract < fabs(col_fract) + POINTER_OFFSET, scaled by
        \* S * D with S = three_quart_height * PointerOffsetDen
        S == three_quart_height * PointerOffsetDen
        T == D * (2 * y_rem * PointerOffsetDen - PointerOffsetNum * three_quart_height)
        above == IF col_fract_neg THEN LessRoot3(S * P + T, S * X)
                                  ELSE Root3Less(S * X, S * P - T)
    IN  IF above
        THEN LET odd_row2 == 1 - odd_row
             IN  <<mouse_row - 1,
                   mouse_col + (IF col_fract_neg THEN 1 ELSE 0) - odd_row2>>
        ELSE <<mouse_row, mouse_col>>

\* a pixel of the window as a point
Pixel(pos_x, pos_y) == [x_int |-> pos_x, x_root3 |-> 0, y |-> pos_y]

\* the key the event loop looks up for event.pos = (pos_x, pos_y)
ResolvePointer(pos_x, pos_y) == ResolvePoint(Pixel(pos_x, pos_y))

\* the pixels of the window: disp_width = ceil(hex_width * width + 2 *
\* GRID_OFFSET), disp_height = three_quart_height * height + quart_height +
\* 2 * GRID_OFFSET
InWindow(pos_x, pos_y) ==
    /\ pos_x >= 0
    /\ pos_y >= 0
    /\ LessRoot3(pos_x - 2 * GRID_OFFSET, HexWidthRoot3 * width)
    /\ pos_y < three_quart_height * height + quart_height + 2 * GRID_OFFSET

\* the pointer positions the event-loop specification draws event.pos from:
\* one per hexagon width and per row height, which reaches every hexagon of
\* a grid and, past the end of an odd row, no hexagon
PointerXs == {((2 * i + 1) * (2 * HexWidthRoot3)) \div 2 : i \in 0..MaxWidth}
PointerYs == {((2 * i + 1) * three_quart_height) \div 2 : i \in 0..MaxHeight}

\* the key ResolvePointer gives for every pointer position drawn
ResolvedKeys == [pos \in PointerXs \X PointerYs |-> ResolvePointer(pos[1], pos[2])]

(***************************************************************************)
(* Player                                                                  *)
(***************************************************************************)
\* the setter, were the blocked test missing
DestinationSetterUnchecked(new_dest) ==
    /\ destination' = new_dest
    /\ path' = FindPath(hexagons, neighbors, blocked, position, new_dest, path)

\* Player.destination (setter)
DestinationSetter(new_dest) ==
    IF ~blocked[new_dest]
    THEN /\ destination' = new_dest
         /\ path' = FindPath(hexagons, neighbors, blocked, position, new_dest, path)
    ELSE UNCHANGED <<destination, path>>

\* move, were find_path not called after the step
MoveKeepsPath(position_hex) ==
    IF position_hex # None /\ ~blocked[position_hex]
    THEN /\ position' = position_hex
         /\ center' = HexCenter(position_hex)
         /\ UNCHANGED path
    ELSE UNCHANGED <<position, center, path>>

\* move, were the blocked test missing
MoveUnchecked(position_hex) ==
    IF position_hex # None
    THEN /\ position' = position_hex
         /\ center' = HexCenter(position_hex)
         /\ path' = FindPath(hexagons, neighbors, blocked, position_hex, destination, path)
    ELSE UNCHANGED <<position, center, path>>

\* Player.move
Move(position_hex) ==
    IF position_hex # None /\ ~blocked[position_hex]
    THEN /\ position' = position_hex
         /\ center' = HexCenter(position_hex)
         /\ path' = FindPath(hexagons, neighbors, blocked, position_hex, destination, path)
    ELSE UNCHANGED <<position, center, path>>

(***************************************************************************)
(* The event loop                                                          *)
(***************************************************************************)
Cells == CellsOf(hexagons)

\* the event handled last: its type, the neighbor slot of a movement key,
\* and whether the hexagon a right click toggled was on the cached path
\* when the click arrived
Event(type, key, on_path) == [type |-> type, key |-> key, on_path |-> on_path]

OnPath(hex) == \E i \in 1..Len(path) : path[i] = hex

\* the highlights, were the previous selection and its neighbors not
\* cleared
HighlightNoClear(mouse_hex) ==
    IF mouse_hex # None
    THEN [hex \in Cells |->
            IF hex = mouse_hex
               \/ \E i \in 1..Len(NeighborList(neighbors[mouse_hex])) :
                     NeighborList(neighbors[mouse_hex])[i] = hex
            THEN TRUE ELSE highlighted[hex]]
    ELSE highlighted

\* the highlights after the MOUSEMOTION branch moved the selection
Highlight(mouse_hex) ==
    LET cleared ==
            IF selected_hex # None
            THEN [hex \in Cells |->
                    IF hex = selected_hex
                       \/ \E i \in 1..Len(NeighborList(neighbors[selected_hex])) :
                             NeighborList(neighbors[selected_hex])[i] = hex
                    THEN FALSE ELSE highlighted[hex]]
            ELSE highlighted
    IN  IF mouse_hex # None
        THEN [hex \in Cells |->
                IF hex = mouse_hex
                   \/ \E i \in 1..Len(NeighborList(neighbors[mouse_hex])) :
                         NeighborList(neighbors[mouse_hex])[i] = hex
                THEN TRUE ELSE cleared[hex]]
        ELSE cleared

\* pygame.MOUSEMOTION
MouseMotion(pos_x, pos_y) ==
    /\ search.status = "idle"
    /\ InWindow(pos_x, pos_y)
    /\ LET mouse_hex == GetItem(hexagons, ResolvedKeys[<<pos_x, pos_y>>])
       IN  IF selected_hex # mouse_hex
           THEN /\ highlighted' = Highlight(mouse_hex)
                /\ selected_hex' = mouse_hex
           ELSE UNCHANGED <<highlighted, selected_hex>>
    /\ event' = Event("motion", "", FALSE)
    /\ UNCHANGED <<height, width, hexagons, neighbors, blocked,
                   position, center, destination, path, search>>

\* pygame.MOUSEBUTTONDOWN, event.button == 1
LeftClick ==
    /\ search.status = "idle"
    /\ IF selected_hex # None
       THEN DestinationSetter(selected_hex)
       ELSE UNCHANGED <<destination, path>>
    /\ event' = Event("left", "", FALSE)
    /\ UNCHANGED <<height, width, hexagons, neighbors, blocked, highlighted,
                   selected_hex, position, center, search>>

\* the right click, were find_path not called after the toggle
RightClickNoRepath ==
    /\ search.status = "idle"
    /\ IF selected_hex # None
       THEN /\ blocked' = [blocked EXCEPT ![selected_hex] = ~blocked[selected_hex]]
            /\ UNCHANGED path
       ELSE UNCHANGED <<blocked, path>>
    /\ event' = Event("right", "", selected_hex # None /\ OnPath(selected_hex))
    /\ UNCHANGED <<height, width, hexagons, neighbors, highlighted,
                   selected_hex, position, center, destination, search>>

\* pygame.MOUSEBUTTONDOWN, event.button == 3
RightClick ==
    /\ search.status = "idle"
    /\ IF selected_hex # None
       THEN /\ blocked' = [blocked EXCEPT ![selected_hex] = ~blocked[selected_hex]]
            /\ path' = FindPath(hexagons, neighbors, blocked', position, destination, path)
       ELSE UNCHANGED <<blocked, path>>
    /\ event' = Event("right", "", selected_hex # None /\ OnPath(selected_hex))
    /\ UNCHANGED <<height, width, hexagons, neighbors, highlighted,
                   selected_hex, position, center, destination, search>>

\* pygame.KEYDOWN with one of the six movement keys
KeyDown(slot) ==
    /\ search.status = "idle"
    /\ Move(neighbors[position][slot])
    /\ event' = Event("key", slot, FALSE)
    /\ UNCHANGED <<height, width, hexagons, neighbors, blocked, highlighted,
                   selected_hex, destination, search>>

\* hex_grid = HexGrid(h, w); player = Player(PLAYER_COLOR, hex_grid[0, 0],
\* hex_grid)
Constructed(gh, gw) ==
    /\ height = gh
    /\ width = gw
    /\ hexagons = BuildHexagons(gh, gw)
    /\ neighbors = BuildNeighbors(hexagons)
    /\ blocked = [hex \in Cells |-> FALSE]
    /\ highlighted = [hex \in Cells |-> FALSE]
    /\ selected_hex = None
    /\ position = GetItem(hexagons, <<0, 0>>)
    /\ center = HexCenter(position)
    /\ destination = None
    /\ path = <<>>

Init ==
    /\ \E gh \in 1..MaxHeight, gw \in 1..MaxWidth :
          gh * gw <= MaxArea /\ Constructed(gh, gw)
    /\ search = IdleSearch
    /\ event = Event("init", "", FALSE)

Next ==
    \/ \E pos_x \in PointerXs, pos_y \in PointerYs : MouseMotion(pos_x, pos_y)
    \/ LeftClick
    \/ RightClick
    \/ \E slot \in Slots : KeyDown(slot)

Spec == Init /\ [][Next]_vars

(***************************************************************************)
(* find_path run one loop pass at a time, for any grid, blocked cells,     *)
(* position and destination                                                *)
(***************************************************************************)
\* find_path is entered: the test of self.destination and the lines before
\* the loop
FindPathEnter ==
    /\ search.status = "called"
    /\ IF destination # None
       THEN /\ search' = StartSearch(hexagons, position, destination)
            /\ path' = <<>>
       ELSE /\ search' = [status |-> "no_destination"]
            /\ UNCHANGED path
    /\ UNCHANGED <<height, width, hexagons, neighbors, blocked, highlighted,
                   selected_hex, position, center, destination, event>>

\* one pass of the while loop (or its end, when the queue is empty)
FindPathStep ==
    /\ search.status = "running"
    /\ search' = SearchIter(search, neighbors, blocked, destination)
    /\ path' = search'.path
    /\ UNCHANGED <<height, width, hexagons, neighbors, blocked, highlighted,
                   selected_hex, position, center, destination, event>>

InitSearch ==
    /\ \E gh \in 1..SearchMaxHeight, gw \in 1..SearchMaxWidth :
          /\ gh * gw <= SearchMaxArea
          /\ height = gh
          /\ width = gw
          /\ hexagons = BuildHexagons(gh, gw)
    /\ neighbors = BuildNeighbors(hexagons)
    /\ \E blk \in SUBSET Cells :
          /\ Cardinality(blk) <= SearchMaxBlocked
          /\ blocked = [hex \in Cells |-> hex \in blk]
    /\ highlighted = [hex \in Cells |-> FALSE]
    /\ selected_hex = None
    /\ position \in Cells
    /\ center = HexCenter(position)
    /\ destination \in Cells \cup {None}
    /\ path = <<>>
    /\ search = [status |-> "called"]
    /\ event = Event("init", "", FALSE)

NextSearch == FindPathEnter \/ FindPathStep

SpecSearch == InitSearch /\ [][NextSearch]_vars

\* the same call on small grids with several blocked cells
InitSearchDense ==
    /\ \E gh \in 1..DenseMaxHeight, gw \in 1..DenseMaxWidth :
          /\ gh * gw <= DenseMaxArea
          /\ height = gh
          /\ width = gw
          /\ hexagons = BuildHexagons(gh, gw)
    /\ neighbors = BuildNeighbors(hexagons)
    /\ \E blk \in SUBSET Cells :
          /\ Cardinality(blk) <= DenseMaxBlocked
          /\ blocked = [hex \in Cells |-> hex \in blk]
    /\ highlighted = [hex \in Cells |-> FALSE]
    /\ selected_hex = None
    /\ position \in Cells
    /\ center = HexCenter(position)
    /\ destination \in Cells \cup {None}
    /\ path = <<>>
    /\ search = [status |-> "called"]
    /\ event = Event("init", "", FALSE)

SpecSearchDense == InitSearchDense /\ [][NextSearch]_vars


(***************************************************************************)
(* HexGrid(height, width) called with any two integers                     *)
(***************************************************************************)
\* the dataclass __init__ has stored the arguments; __post_init__ has not
\* run yet
InitGrid ==
    /\ height \in (0 - GridMaxNegative)..GridMaxHeight
    /\ width \in (0 - GridMaxNegative)..GridMaxWidth
    /\ hexagons = None
    /\ neighbors = None
    /\ blocked = None
    /\ highlighted = None
    /\ selected_hex = None
    /\ position = None
    /\ center = None
    /\ destination = None
    /\ path = <<>>
    /\ search = IdleSearch
    /\ event = Event("new", "", FALSE)

\* HexGrid.__post_init__: the list comprehension and the wiring loop; it
\* has no raise statement and none of its expressions fails for any pair
\* of integers (range of a non-positive number is empty), so it returns
\* and the caller holds the grid
PostInit ==
    /\ event.type = "new"
    /\ hexagons' = BuildHexagons(height, width)
    /\ neighbors' = BuildNeighbors(hexagons')
    /\ blocked' = [hex \in CellsOf(hexagons') |-> FALSE]
    /\ highlighted' = [hex \in CellsOf(hexagons') |-> FALSE]
    /\ event' = Event("grid", "", FALSE)
    /\ UNCHANGED <<height, width, selected_hex, position, center,
                   destination, path, search>>

NextGrid == PostInit

SpecGrid == InitGrid /\ [][NextGrid]_vars

(***************************************************************************)
(* One MOUSEMOTION event, for any grid and any point of the window         *)
(***************************************************************************)
\* the pixels of the window (hex_width < 2 * HexWidthRoot3)
WindowPixels ==
    {Pixel(pos_x, pos_y) :
        <<pos_x, pos_y>> \in
            {pos \in (0..(2 * HexWidthRoot3 * width + 2 * GRID_OFFSET))
                     \X (0..(three_quart_height * height + quart_height
                              + 2 * GRID_OFFSET)) :
                InWindow(pos[1], pos[2])}}

\* the center points of the hexagons
Centers == {HexCenter(hex) : hex \in Cells}

\* a grid and a player as the program constructs them, and a MOUSEMOTION
\* event waiting in the queue
InitPointer ==
    /\ \E gh \in 1..PointerMaxHeight, gw \in 1..PointerMaxWidth :
          Constructed(gh, gw)
    /\ search = IdleSearch
    /\ \E point \in WindowPixels \cup Centers :
          event = [type |-> "pending", pos |-> point]

\* the MOUSEMOTION branch for the waiting event
HandleMotion ==
    /\ event.type = "pending"
    /\ LET mouse_hex == GetItem(hexagons, ResolvePoint(event.pos))
       IN  IF selected_hex # mouse_hex
           THEN /\ highlighted' = Highlight(mouse_hex)
                /\ selected_hex' = mouse_hex
           ELSE UNCHANGED <<highlighted, selected_hex>>
    /\ event' = [type |-> "motion", pos |-> event.pos]
    /\ UNCHANGED <<height, width, hexagons, neighbors, blocked,
                   position, center, destination, path, search>>

NextPointer == HandleMotion

SpecPointer == InitPointer /\ [][NextPointer]_vars

(***************************************************************************)
(* Walks in the adjacency graph                                            *)
(***************************************************************************)
\* b is in one of a's six neighbor slots
Adjacent(a, b) == \E slot \in Slots : neighbors[a][slot] = b

\* the unblocked hexagons adjacent to a hexagon of the set
Step(from) == {n \in Cells : ~blocked[n] /\ \E c \in from : Adjacent(c, n)}

\* the least number of steps of a walk to `to` that starts in the frontier
\* and enters only unblocked hexagons, plus d; -1 when there is none
RECURSIVE Levels(_, _, _, _)
Levels(seen, frontier, to, d) ==
    IF to \in frontier THEN d
    ELSE IF frontier = {} THEN -1
    ELSE Levels(seen \cup Step(frontier), Step(frontier) \ seen, to, d + 1)

Distance(from, to) == Levels({from}, {from}, to, 0)

Walkable(from, to) == Distance(from, to) # -1

Steps(p) == Len(p) - 1

Opposite(slot) ==
    CASE slot = "left"       -> "right"
      [] slot = "right"      -> "left"
      [] slot = "up_left"    -> "down_right"
      [] slot = "down_right" -> "up_left"
      [] slot = "up_right"   -> "down_left"
      [] slot = "down_left"  -> "up_right"

NeighborSet(hex) == {neighbors[hex][slot] : slot \in Slots} \ {None}

Enclosed(hex) == \A n \in NeighborSet(hex) : blocked[n]

NoneBlocked == \A hex \in Cells : ~blocked[hex]

(***************************************************************************)
(* Properties                                                              *)
(***************************************************************************)

\* C1: whenever find_path produces a non-empty path, its number of steps is
\* the least number of steps of any walk from the position to the
\* destination that enters only unblocked neighbor cells.
C1_PathIsShortest ==
    (search.status = "found" /\ path # <<>>)
        => Steps(path) = Distance(position, destination)

\* C2: after any sequence of events the cached path is empty, or starts at
\* the position, ends at the destination and steps between neighbors only.
C2_PathWellFormed ==
    \/ path = <<>>
    \/ /\ path[1] = position
       /\ path[Len(path)] = destination
       /\ \A i \in 1..(Len(path) - 1) : Adjacent(path[i], path[i + 1])

\* C2 witness: a move has left a path of at least three hexagons.
C2_Witness ==
    /\ event.type = "key"
    /\ Len(path) >= 3
    /\ position # GetItem(hexagons, <<0, 0>>)

\* C3 as stated: a hexagon of the cached path (first, interior or last) that
\* a right click has just blocked is not on the recomputed path.
C3_BlockedCellLeavesPath ==
    (event.type = "right" /\ event.on_path /\ blocked[selected_hex])
        => ~OnPath(selected_hex)

\* C3 amended: a hexagon of the cached path other than the player's position
\* that a right click has just blocked is not on the recomputed path.
C3_BlockedCellBeyondPositionLeavesPath ==
    (event.type = "right" /\ event.on_path /\ blocked[selected_hex]
        /\ selected_hex # position)
        => ~OnPath(selected_hex)

\* C3 witness: an interior hexagon of the path was blocked and the new path
\* goes around it.
C3_Witness ==
    /\ event.type = "right"
    /\ event.on_path
    /\ blocked[selected_hex]
    /\ selected_hex # position
    /\ selected_hex # destination
    /\ path # <<>>

\* C4: with a destination set, the cached path is non-empty exactly when
\* the destination can be reached from the position by a walk that enters
\* only unblocked neighbor cells.
C4_PathIffWalkable ==
    destination # None => ((path # <<>>) <=> Walkable(position, destination))

\* C4 witness: an unblocked destination is cut off and the path is empty.
C4_Witness ==
    /\ destination # None
    /\ ~blocked[destination]
    /\ ~Walkable(position, destination)
    /\ path = <<>>
    /\ event.type = "right"

\* C5: a left click on a blocked hexagon changes neither the destination
\* nor the cached path.
C5_BlockedDestinationIsNoOp ==
    [][(event'.type = "left" /\ selected_hex # None /\ blocked[selected_hex])
          => (destination' = destination /\ path' = path)]_vars

\* C5 witness: a left click on a blocked hexagon while a destination and a
\* path to it were cached.
C5_Witness ==
    /\ event.type = "left"
    /\ selected_hex # None
    /\ blocked[selected_hex]
    /\ destination # None
    /\ destination # selected_hex
    /\ path # <<>>

\* the hexagon a movement key aims at is missing or blocked
NoEntry(hex, slot) ==
    IF neighbors[hex][slot] = None THEN TRUE ELSE blocked[neighbors[hex][slot]]

\* C6: a move to an absent or blocked neighbor changes neither position,
\* center, destination nor cached path.
C6_RefusedMoveIsNoOp ==
    [][(event'.type = "key" /\ NoEntry(position, event'.key))
          => UNCHANGED <<position, center, destination, path>>]_vars

\* C6 witness: a movement key was pressed toward a blocked neighbor while a
\* path was cached.
C6_Witness ==
    /\ event.type = "key"
    /\ neighbors[position][event.key] # None
    /\ NoEntry(position, event.key)
    /\ path # <<>>

\* C7 as stated: when every neighbor of the destination is blocked the
\* cached path is empty, for every position.
C7_EnclosedGoalEmptyPath ==
    (destination # None /\ Enclosed(destination)) => path = <<>>

\* C7 amended: when every neighbor of the destination is blocked and the
\* position is neither the destination nor one of its neighbors, the
\* cached path is empty.
C7_EnclosedGoalElsewhereEmptyPath ==
    (destination # None /\ Enclosed(destination) /\ position # destination
        /\ ~Adjacent(destination, position))
        => path = <<>>

\* C7 witness: an unblocked destination with at least two neighbors, all
\* blocked, and the player neither on it nor beside it.
C7_Witness ==
    /\ destination # None
    /\ position # destination
    /\ ~Adjacent(destination, position)
    /\ ~blocked[destination]
    /\ Cardinality(NeighborSet(destination)) >= 2
    /\ Enclosed(destination)
    /\ event.type = "right"

\* C8 as stated: on a grid without blocked cells the path has as many
\* steps as the Manhattan distance of the offset coordinates.
C8_OpenGridManhattan ==
    (search.status = "found" /\ NoneBlocked)
        => Steps(path) = h(position, destination)

\* C8 amended: on a grid without blocked cells a path that find_path
\* produces has at most as many steps as the Manhattan distance of the
\* offset coordinates, and exactly as many when start and goal are in the
\* same row.
C8_OpenGridAtMostManhattan ==
    (search.status = "found" /\ NoneBlocked)
        => /\ Steps(path) <= h(position, destination)
           /\ position[2] = destination[2] => Steps(path) = h(position, destination)

\* C8 witness: a path on an open grid that is shorter than the Manhattan
\* distance.
C8_Witness ==
    /\ search.status = "found"
    /\ NoneBlocked
    /\ Steps(path) < h(position, destination)
    /\ Steps(path) >= 3

\* C9: in every reachable state the neighbor relation is symmetric in
\* opposite slots.
C9_NeighborSymmetry ==
    \A hex \in Cells : \A slot \in Slots :
        neighbors[hex][slot] # None
            => neighbors[neighbors[hex][slot]][Opposite(slot)] = hex

\* C9 witness: after a block toggle, on a grid of three rows, a hexagon of
\* the middle row with neighbors above, below and beside it.
C9_Witness ==
    /\ event.type = "right"
    /\ \E hex \in Cells :
          /\ hex[2] = 1
          /\ neighbors[hex].up_left # None
          /\ neighbors[hex].up_right # None
          /\ neighbors[hex].down_left # None
          /\ neighbors[hex].down_right # None

\* C10: when the position is the destination the path is the one-element
\* path of the position, whatever is blocked.
C10_AtDestinationSingleton ==
    (destination # None /\ position = destination) => path = <<position>>

\* C10 witness: the player stands on its destination, which is blocked as
\* are all of its neighbors.
C10_Witness ==
    /\ destination # None
    /\ position = destination
    /\ blocked[position]
    /\ Cardinality(NeighborSet(position)) >= 2
    /\ Enclosed(position)
    /\ event.type = "right"

(***************************************************************************)
(* C11: constructing a grid with a height or a width that is zero or       *)
(* negative is rejected: the construction fails with an error and the      *)
(* caller gets no grid, not even an empty one.                             *)
(* The code does not do this: __post_init__ returns for every pair of      *)
(* integers and the caller holds a grid without hexagons.                  *)
(***************************************************************************)
C11_NonPositiveRejected ==
    (height <= 0 \/ width <= 0) => event.type # "grid"

(***************************************************************************)
(* C13: in every constructed grid, for every positive height and width,    *)
(* each cell has at least 2 and at most 6 present neighbors.               *)
(* As stated this fails on the smallest grids (the one hexagon of a 1 x 1  *)
(* grid has no neighbor); it holds once height and width are both at least *)
(* 2, and the upper limit of 6 holds for every grid.                       *)
(***************************************************************************)
NeighborCount(hex) == Len(NeighborList(neighbors[hex]))

C13_NeighborCount2To6 ==
    (event.type = "grid" /\ height > 0 /\ width > 0)
        => \A hex \in Cells : NeighborCount(hex) >= 2 /\ NeighborCount(hex) <= 6

C13_NeighborCountAtMost6AndFrom2x2AtLeast2 ==
    event.type = "grid"
        => \A hex \in Cells :
              /\ NeighborCount(hex) <= 6
              /\ (height >= 2 /\ width >= 2) => NeighborCount(hex) >= 2

\* a grid with a hexagon that has all six neighbors and one that has two
C13_Witness ==
    /\ event.type = "grid"
    /\ \E hex \in Cells : NeighborCount(hex) = 6
    /\ \E hex \in Cells : NeighborCount(hex) = 2

(***************************************************************************)
(* C12: for every in-bounds (row, col), with 0 <= row < height and         *)
(* 0 <= col < width - (row mod 2), the lookup returns the cell stored for  *)
(* that row and column (its position is (col, row)); for every other       *)
(* pair, a negative row or column and column width - 1 of an odd row       *)
(* included, it returns None.                                              *)
(***************************************************************************)
InBounds(key) ==
    /\ 0 <= key[1] /\ key[1] < height
    /\ 0 <= key[2] /\ key[2] < width - (key[1] % 2)

C12_LookupInBoundsElseNone ==
    event.type = "motion"
        => LET key == ResolvePoint(event.pos)
           IN  IF InBounds(key) THEN selected_hex = <<key[2], key[1]>>
                                ELSE selected_hex = None

\* the lookup of column width - 1 of an odd row has returned None
C12_Witness ==
    /\ event.type = "motion"
    /\ LET key == ResolvePoint(event.pos)
       IN  key[1] % 2 = 1 /\ key[1] < height /\ key[2] = width - 1
    /\ selected_hex = None

(***************************************************************************)
(* C14: for every cell, pointer resolution (margin subtraction, row and    *)
(* column floor, boundary correction with the constant 0.09) applied to    *)
(* the cell's exact center point yields that same cell.                    *)
(***************************************************************************)
C14_CenterResolvesToItsCell ==
    \A hex \in Cells :
        (event.type = "motion" /\ event.pos = HexCenter(hex)) => selected_hex = hex

\* the center of a hexagon of an odd row, not the first of its row, has
\* been resolved
C14_Witness ==
    /\ event.type = "motion"
    /\ \E hex \in Cells :
          /\ hex[2] % 2 = 1 /\ hex[1] > 0
          /\ event.pos = HexCenter(hex)
          /\ selected_hex = hex

(***************************************************************************)
(* C15: for every cell and every pixel position lying strictly inside that *)
(* cell's hexagon (the polygon of its 6 vertices), pointer resolution      *)
(* yields that cell, along all six edges.                                  *)
(* The code does not do this: the upper edges of a hexagon are the lines   *)
(* 3/2 * row_fract = |col_fract|, while the boundary correction tests      *)
(* 2 * row_fract < |col_fract| + POINTER_OFFSET, so pixels just inside a   *)
(* slanted edge resolve to a cell of the row above or below.               *)
(***************************************************************************)
\* point lies strictly on the inner side of the edge from vertex a to
\* vertex b: the cross product (b - a) x (point - a) is positive (the
\* vertices run clockwise on the screen)
InnerSide(a, b, point) ==
    LET cross_int   == (b.x_int - a.x_int) * (point.y - a.y)
                       - (b.y - a.y) * (point.x_int - a.x_int)
        cross_root3 == (b.x_root3 - a.x_root3) * (point.y - a.y)
                       - (b.y - a.y) * (point.x_root3 - a.x_root3)
    IN  LessRoot3(0 - cross_int, cross_root3)

StrictlyInside(point, hex) ==
    \A i \in 1..6 :
        InnerSide(HexVertices(hex)[i], HexVertices(hex)[(i % 6) + 1], point)

C15_InsideResolvesToCell ==
    \A hex \in Cells :
        (event.type = "motion" /\ StrictlyInside(event.pos, hex))
            => selected_hex = hex

(***************************************************************************)
(* C16: after any sequence of events, every cell of the cached path other  *)
(* than its first cell is unblocked.                                       *)
(***************************************************************************)
C16_PathBeyondFirstUnblocked ==
    \A i \in 2..Len(path) : ~blocked[path[i]]

\* a cached path of at least three cells that starts on a blocked cell,
\* handled last by a right click that blocked some other cell
C16_Witness ==
    /\ event.type = "right"
    /\ Len(path) >= 3
    /\ blocked[path[1]]
    /\ selected_hex # None /\ selected_hex # position /\ blocked[selected_hex]

(***************************************************************************)
(* C17: the agent's position changes only on a directional key event, and  *)
(* only to a cell that is an immediate neighbor of its previous position   *)
(* and unblocked at the time of the move; destination assignment, block    *)
(* toggles and pointer moves never change the position.                    *)
(***************************************************************************)
C17_PositionChangesOnlyByKeyToOpenNeighbor ==
    [][/\ position' # position
           => /\ event'.type = "key"
              /\ position' = neighbors[position][event'.key]
              /\ ~blocked[position']
       /\ event'.type \in {"left", "right", "motion"} => position' = position]_vars

\* a key has moved the player while a destination was set and some cell
\* was blocked
C17_Witness ==
    /\ event.type = "key"
    /\ position # GetItem(hexagons, <<0, 0>>)
    /\ position = neighbors[GetItem(hexagons, <<0, 0>>)][event.key]
    /\ destination # None
    /\ \E hex \in Cells : blocked[hex]

(***************************************************************************)
(* C19: after any sequence of pointer-move events, the set of highlighted  *)
(* cells is exactly the currently selected (resolved) cell together with   *)
(* its present neighbors, and is empty when the pointer resolves to no     *)
(* cell.                                                                   *)
(***************************************************************************)
HighlightedSet == {hex \in Cells : highlighted[hex]}

C19_HighlightIsSelectionAndNeighbors ==
    HighlightedSet = IF selected_hex = None THEN {}
                     ELSE {selected_hex} \cup NeighborSet(selected_hex)

\* the pointer has moved to a hexagon whose neighborhood is not the whole
\* grid: some cells are highlighted and some are not
C19_Witness ==
    /\ event.type = "motion"
    /\ selected_hex # None
    /\ HighlightedSet # {}
    /\ HighlightedSet # Cells

(***************************************************************************)
(* C18: during find_path, every node removed from the frontier has the     *)
(* smallest current f = g + h among all nodes in the open set at that      *)
(* moment, and among open nodes with equal f the one inserted earliest is  *)
(* removed first.                                                          *)
(***************************************************************************)
\* the q_count under which an open node was put into the queue
InsertedAt(node) == (CHOOSE e \in search.q : e[3] = node)[2]

\* a pass of the loop removes a node from the frontier
Removes(node) ==
    /\ search.status = "running"
    /\ node \in search.open_nodes
    /\ node \notin search'.open_nodes

C18_RemovedHasLeastCurrentF ==
    [][\A node \in Cells :
          Removes(node)
             => \A other \in search.open_nodes \ {node} :
                   \/ search.f_score[node] < search.f_score[other]
                   \/ /\ search.f_score[node] = search.f_score[other]
                      /\ InsertedAt(node) < InsertedAt(other)]_vars

(***************************************************************************)
(* C20: find_path terminates for every grid, blocked configuration and     *)
(* position/destination pair: the frontier loop always ends, either by     *)
(* removing the destination or by emptying the queue, even though a cell   *)
(* whose g-score improves after it was removed is inserted again, and the  *)
(* path reconstruction through the back-pointers ends at the start cell.   *)
(* Stated with a rank that no run can lower for ever: every pass of the    *)
(* loop either returns or lowers the pair (sum of all g-scores, length of  *)
(* the queue) in lexicographic order; an insertion lengthens the queue     *)
(* only together with a g-score that gets smaller.                         *)
(***************************************************************************)
RECURSIVE SumG(_, _)
SumG(g_score, nodes) ==
    IF nodes = {} THEN 0
    ELSE LET node == CHOOSE n \in nodes : TRUE
         IN  g_score[node] + SumG(g_score, nodes \ {node})

LowerRank(after, before) ==
    \/ SumG(after.g_score, Cells) < SumG(before.g_score, Cells)
    \/ /\ SumG(after.g_score, Cells) = SumG(before.g_score, Cells)
       /\ Cardinality(after.q) < Cardinality(before.q)

\* find_path has returned: with the queue empty, or with the destination
\* removed and the path rebuilt back to the position
LoopEnded ==
    \/ search.status = "exhausted" /\ search.q = {} /\ path = <<>>
    \/ /\ search.status = "found"
       /\ destination \notin search.open_nodes
       /\ path # <<>>
       /\ path[1] = position
       /\ path[Len(path)] = destination

C20_EveryPassLowersRankOrReturns ==
    [][search.status = "running"
          => \/ search'.status = "running" /\ LowerRank(search', search)
             \/ search'.status # "running" /\ LoopEnded']_vars

\* the loop has ended after some hexagon was put into the queue a second
\* time: more insertions than hexagons discovered
C20_Witness ==
    /\ LoopEnded
    /\ search.q_count + 1 > Cardinality(DOMAIN search.came_from)

====
